---- MODULE Spec2Model ----
(***************************************************************************)
(* Day 12, "Present Packing": the feasibility oracle of                    *)
(* src/internal/days/day12/day12.py.  Shapes are sets of <<row, col>>      *)
(* offsets, a region is a width x height rectangle with a vector of        *)
(* required counts, and part1 counts the regions can_fit_presents admits.  *)
(* The recursive search backtrack_optimized is a stack machine: one frame  *)
(* per active call, one action per call entry, loop iteration and return.  *)
(***************************************************************************)
EXTENDS Integers, Sequences, FiniteSets, TLC

\* ------------------------------------------------------------ bounds
\* Largest width and height of a region drawn by Init.
MaxSide == 3
\* Largest required count of one shape in a region drawn by Init.
MaxCount == 2
\* Longest list of regions drawn by InitPart1.
MaxRegions == 2
\* Offsets of the shapes drawn by InitShapeModel lie in -MaxCoord..MaxCoord.
MaxCoord == 1
\* Most cells of a shape drawn by InitShapeModel.
MaxCells == 4
\* Largest width and height of a board drawn by InitPlacement.
MaxBoard == 2

\* ------------------------------------------------------ program constants
\* can_fit_presents: SHAPE_WIDTH = SHAPE_HEIGHT = 3
SHAPE_WIDTH == 3
SHAPE_HEIGHT == 3

\* ------------------------------------------------------------- helpers
SetMin(S) == CHOOSE x \in S : \A y \in S : x <= y

RECURSIVE SetSum(_, _)
\* sum of f[x] over x in S
SetSum(f, S) ==
  IF S = {} THEN 0
  ELSE LET x == CHOOSE y \in S : TRUE IN f[x] + SetSum(f, S \ {x})

\* ---------------------------------------------------------- Shape Model
\* normalize_shape with row and column swapped in the cells it builds.
normalize_shape_Transposed(shape) ==
  IF shape = {} THEN shape
  ELSE LET min_row == SetMin({c[1] : c \in shape})
           min_col == SetMin({c[2] : c \in shape})
       IN {<<c[2] - min_col, c[1] - min_row>> : c \in shape}

\* normalize_shape taking the largest column for the smallest.
normalize_shape_MaxCol(shape) ==
  IF shape = {} THEN shape
  ELSE LET min_row == SetMin({c[1] : c \in shape})
           min_col == 0 - SetMin({0 - c[2] : c \in shape})
       IN {<<c[1] - min_row, c[2] - min_col>> : c \in shape}

\* normalize_shape making a one-cell shape of an empty one.
normalize_shape_EmptyToOrigin(shape) ==
  IF shape = {} THEN {<<0, 0>>}
  ELSE LET min_row == SetMin({c[1] : c \in shape})
           min_col == SetMin({c[2] : c \in shape})
       IN {<<c[1] - min_row, c[2] - min_col>> : c \in shape}

\* normalize_shape: an empty shape is returned as it is; otherwise every
\* cell is moved by (-min_row, -min_col).
normalize_shape(shape) ==
  IF shape = {} THEN shape
  ELSE LET min_row == SetMin({c[1] : c \in shape})
           min_col == SetMin({c[2] : c \in shape})
       IN {<<c[1] - min_row, c[2] - min_col>> : c \in shape}

\* rotate_90 without the sign: (r, c) -> (c, r), normalized.
rotate_90_Transpose(shape) == normalize_shape({<<c[2], c[1]>> : c \in shape})

\* rotate_90: (r, c) -> (c, -r), normalized.
rotate_90(shape) == normalize_shape({<<c[2], 0 - c[1]>> : c \in shape})

\* flip_horizontal: (r, c) -> (r, -c), normalized.
flip_horizontal(shape) == normalize_shape({<<c[1], 0 - c[2]>> : c \in shape})

RECURSIVE RotateTimes(_, _)
\* the inner loop "for _ in range(rotation): temp = rotate_90(temp)"
RotateTimes(shape, rotation) ==
  IF rotation = 0 THEN shape
  ELSE RotateTimes(rotate_90(shape), rotation - 1)

\* The eight (flip, rotation) transforms in the order the loops visit them.
AllEight(shape) ==
  LET current == normalize_shape(shape)
      flipped == flip_horizontal(current)
  IN [n \in 1..8 |->
        normalize_shape(RotateTimes(IF n <= 4 THEN current ELSE flipped,
                                    (n - 1) % 4))]

\* The loop appending every shape, seen before or not.
Dedup_KeepsAll(seq, result) == result \o seq

RECURSIVE Dedup(_, _)
\* "if frozen not in seen: seen.add(frozen); result.append(normalized)"
Dedup(seq, result) ==
  IF seq = <<>> THEN result
  ELSE IF \E j \in 1..Len(result) : result[j] = Head(seq)
       THEN Dedup(Tail(seq), result)
       ELSE Dedup(Tail(seq), Append(result, Head(seq)))

\* generate_transformations: the distinct orientations, first seen first.
generate_transformations(shape) == Dedup(AllEight(shape), <<>>)

\* ----------------------------------------------------- Placement Engine
\* The cells a shape covers with its origin at (start_row, start_col).
CellsAt(shape, start_row, start_col) ==
  {<<start_row + c[1], start_col + c[2]>> : c \in shape}

\* can_place_at without its occupancy check.
can_place_at_NoOccupancyCheck(occ, shape, start_row, start_col, w, h) ==
  \A c \in CellsAt(shape, start_row, start_col) :
     ~(c[1] < 0 \/ c[1] >= h \/ c[2] < 0 \/ c[2] >= w)

\* can_place_at with "c > width" for "c >= width".
can_place_at_OffByOne(occ, shape, start_row, start_col, w, h) ==
  \A c \in CellsAt(shape, start_row, start_col) :
     /\ ~(c[1] < 0 \/ c[1] >= h \/ c[2] < 0 \/ c[2] > w)
     /\ c \notin occ

\* can_place_at with width and height taken for one another.
can_place_at_SwappedBounds(occ, shape, start_row, start_col, w, h) ==
  \A c \in CellsAt(shape, start_row, start_col) :
     /\ ~(c[1] < 0 \/ c[1] >= w \/ c[2] < 0 \/ c[2] >= h)
     /\ c \notin occ

\* can_place_at without its bounds check.
can_place_at_NoBoundsCheck(occ, shape, start_row, start_col, w, h) ==
  \A c \in CellsAt(shape, start_row, start_col) : c \notin occ

\* can_place_at: every translated cell is in bounds and not occupied.
can_place_at(occ, shape, start_row, start_col, w, h) ==
  \A c \in CellsAt(shape, start_row, start_col) :
     /\ ~(c[1] < 0 \/ c[1] >= h \/ c[2] < 0 \/ c[2] >= w)
     /\ c \notin occ

\* A placement that marks the origin cell only.
place_shape_at_OriginOnly(occ, shape, start_row, start_col) ==
  occ \cup {<<start_row, start_col>>}

\* place_shape_at: occupied.add of every translated cell, no check.
place_shape_at(occ, shape, start_row, start_col) ==
  occ \cup CellsAt(shape, start_row, start_col)

\* unplace_shape_at removing the origin cell only.
unplace_shape_at_OriginOnly(occ, shape, start_row, start_col) ==
  occ \ {<<start_row, start_col>>}

\* unplace_shape_at removing nothing.
unplace_shape_at_Nothing(occ, shape, start_row, start_col) == occ

\* unplace_shape_at: occupied.remove of every translated cell.
unplace_shape_at(occ, shape, start_row, start_col) ==
  occ \ CellsAt(shape, start_row, start_col)

\* ---------------------------------------------------- candidate origins
\* The neighbours of the occupied cells, occupied ones among them.
AdjacentFree_KeepsOccupied(occ, w, h) ==
  {n \in UNION {{<<c[1] - 1, c[2]>>, <<c[1] + 1, c[2]>>,
                 <<c[1], c[2] - 1>>, <<c[1], c[2] + 1>>} : c \in occ} :
     0 <= n[1] /\ n[1] < h /\ 0 <= n[2] /\ n[2] < w}

\* The set get_candidate_positions builds for a piece that is not the first:
\* the free in-bounds 4-neighbours of the occupied cells.
AdjacentFree(occ, w, h) ==
  {n \in UNION {{<<c[1] - 1, c[2]>>, <<c[1] + 1, c[2]>>,
                 <<c[1], c[2] - 1>>, <<c[1], c[2] + 1>>} : c \in occ} :
     /\ 0 <= n[1] /\ n[1] < h /\ 0 <= n[2] /\ n[2] < w
     /\ n \notin occ}

\* list(candidates) iterates a set: the order is the interpreter's.  The model
\* draws it once, in Init, from these orders.
ScanOrders == {"ascending", "descending"}

CellBefore(a, b, order) ==
  LET lt == a[1] < b[1] \/ (a[1] = b[1] /\ a[2] < b[2])
  IN IF order = "ascending" THEN lt ELSE (a # b /\ ~lt)

RECURSIVE ListOf(_, _)
ListOf(S, order) ==
  IF S = {} THEN <<>>
  ELSE LET first == CHOOSE a \in S : \A b \in S \ {a} : CellBefore(a, b, order)
       IN <<first>> \o ListOf(S \ {first}, order)

\* get_candidate_positions taking every piece for the first.
get_candidate_positions_AlwaysFirst(occ, w, h, first_piece, order) ==
  << <<0, 0>> >>

\* get_candidate_positions
get_candidate_positions(occ, w, h, first_piece, order) ==
  IF first_piece THEN << <<0, 0>> >>
  ELSE ListOf(AdjacentFree(occ, w, h), order)

\* ------------------------------------------------- Fast Bound Estimator
\* sum(required)
NumPresents(req) == SetSum(req, DOMAIN req)

\* The lower bound with the divisions rounded up.
MaxPresentsLowerBound_Ceil(w, h) ==
  ((w + SHAPE_WIDTH - 1) \div SHAPE_WIDTH) * ((h + SHAPE_HEIGHT - 1) \div SHAPE_HEIGHT)

\* (width // SHAPE_WIDTH) * (height // SHAPE_HEIGHT)
MaxPresentsLowerBound(w, h) == (w \div SHAPE_WIDTH) * (h \div SHAPE_HEIGHT)

\* The ids the two area loops count: "if count > 0 and idx in shapes".
Counted(shp, req) == {idx \in DOMAIN req : req[idx] > 0 /\ idx \in DOMAIN shp}

\* total_tile_area (can_fit_presents), total_present_area (the search)
TotalTileArea(shp, req) ==
  SetSum([idx \in Counted(shp, req) |-> Cardinality(shp[idx]) * req[idx]],
         Counted(shp, req))

RECURSIVE PieceSizeLoop(_, _, _, _)
\* The loop of can_fit_presents_backtracking that sets piece_size, idx ascending.
PieceSizeLoop(shp, req, idx, piece_size) ==
  IF idx \notin DOMAIN req THEN piece_size
  ELSE IF req[idx] > 0 /\ idx \in DOMAIN shp
       THEN LET shape_size == Cardinality(shp[idx])
            IN PieceSizeLoop(shp, req, idx + 1,
                             IF piece_size = 0 THEN shape_size
                             ELSE IF piece_size # shape_size THEN shape_size
                             ELSE piece_size)
       ELSE PieceSizeLoop(shp, req, idx + 1, piece_size)

PieceSize(shp, req) == PieceSizeLoop(shp, req, 0, 0)

\* ------------------------------------------------- Placement Task List
RECURSIVE Repeat(_, _)
Repeat(x, n) == IF n <= 0 THEN <<>> ELSE <<x>> \o Repeat(x, n - 1)

RECURSIVE ExpandFrom(_, _)
\* "for idx, count in enumerate(required): for _ in range(count): append(idx)"
ExpandFrom(req, idx) ==
  IF idx \notin DOMAIN req THEN <<>>
  ELSE Repeat(idx, req[idx]) \o ExpandFrom(req, idx + 1)

\* A sort key of the shape id alone.
sort_key_IdOnly(idx, trs) == <<0, idx>>

\* sort_key: (number of orientations, 0 for an id the shape map lacks; idx)
sort_key(idx, trs) ==
  <<IF idx \in DOMAIN trs THEN Len(trs[idx]) ELSE 0, idx>>

KeyLeq(a, b) == a[1] < b[1] \/ (a[1] = b[1] /\ a[2] <= b[2])

RECURSIVE InsertSorted(_, _, _)
\* x goes after every member whose key is not greater (the sort is stable).
InsertSorted(sorted, x, trs) ==
  IF sorted = <<>> THEN <<x>>
  ELSE IF KeyLeq(sort_key(Head(sorted), trs), sort_key(x, trs))
       THEN <<Head(sorted)>> \o InsertSorted(Tail(sorted), x, trs)
       ELSE <<x>> \o sorted

RECURSIVE SortPresents(_, _, _)
\* presents.sort(key=sort_key)
SortPresents(seq, sorted, trs) ==
  IF seq = <<>> THEN sorted
  ELSE SortPresents(Tail(seq), InsertSorted(sorted, Head(seq), trs), trs)

\* Orientation lists for the shape of smallest id only.
AllTransformations_FirstOnly(shp) ==
  [idx \in {SetMin(DOMAIN shp)} |-> generate_transformations(shp[idx])]

\* all_transformations: one orientation list per shape of the map
AllTransformations(shp) ==
  [idx \in DOMAIN shp |-> generate_transformations(shp[idx])]

\* The task list of a region, as can_fit_presents_backtracking builds it.
Presents(shp, req) == SortPresents(ExpandFrom(req, 0), <<>>, AllTransformations(shp))

\* ---------------------------------------------------------------- inputs
\* Shapes the shape maps of Init are drawn from: the two of the tests
\* test_single_present_fits and test_present_too_large, an L tromino, and a
\* 2 x 5 block, which fits no 3 x 3 box.
SingleCell == {<<0, 0>>}
Line3 == {<<0, 0>>, <<0, 1>>, <<0, 2>>}
LTromino == {<<0, 0>>, <<0, 1>>, <<1, 0>>}
Block2x5 == {<<r, c>> : r \in 0..1, c \in 0..4}
ShapeLibrary == {SingleCell, Line3, LTromino, Block2x5}

\* Shape ids of the drawn maps; a map may lack any of them.
Ids == 0..1
ShapeMaps == UNION {[D -> ShapeLibrary] : D \in SUBSET Ids}

Regions ==
  [width : 1..MaxSide, height : 1..MaxSide, required : [Ids -> 0..MaxCount]]

\* One query: part1 over a list of one region.
RegionLists == {<<region>> : region \in Regions}

\* The lists of regions of InitPart1: up to MaxRegions regions, in any order
\* and with repetition, each resolved in a different way with Part1Shapes.
Part1Shapes == (0 :> SingleCell @@ 1 :> LTromino)
Part1Regions ==
  {[width |-> 3, height |-> 3, required |-> (0 :> 0 @@ 1 :> 1)],
   [width |-> 1, height |-> 1, required |-> (0 :> 0 @@ 1 :> 1)],
   [width |-> 2, height |-> 2, required |-> (0 :> 1 @@ 1 :> 1)],
   [width |-> 2, height |-> 2, required |-> (0 :> 0 @@ 1 :> 1)],
   [width |-> 2, height |-> 3, required |-> (0 :> 0 @@ 1 :> 2)],
   [width |-> 3, height |-> 2, required |-> (0 :> 2 @@ 1 :> 1)]}
Part1RegionLists == UNION {[1..n -> Part1Regions] : n \in 0..MaxRegions}

\* The worked example: EXAMPLE_INPUT's six shapes and three regions.  Shapes
\* 0, 4 and 5 and the regions are spelled out in day12_test.py.
Shape0 == {<<0, 0>>, <<0, 1>>, <<0, 2>>, <<1, 0>>, <<1, 1>>, <<2, 0>>, <<2, 1>>}
Shape1 == {<<0, 0>>, <<0, 1>>, <<0, 2>>, <<1, 0>>, <<1, 1>>, <<2, 1>>, <<2, 2>>}
Shape2 == {<<0, 1>>, <<0, 2>>, <<1, 0>>, <<1, 1>>, <<1, 2>>, <<2, 0>>, <<2, 1>>}
Shape3 == {<<0, 0>>, <<0, 1>>, <<1, 0>>, <<1, 1>>, <<1, 2>>, <<2, 0>>, <<2, 1>>}
Shape4 == {<<0, 0>>, <<0, 1>>, <<0, 2>>, <<1, 0>>, <<2, 0>>, <<2, 1>>, <<2, 2>>}
Shape5 == {<<0, 0>>, <<0, 1>>, <<0, 2>>, <<1, 1>>, <<2, 0>>, <<2, 1>>, <<2, 2>>}
ExampleShapes ==
  (0 :> Shape0 @@ 1 :> Shape1 @@ 2 :> Shape2 @@ 3 :> Shape3 @@ 4 :> Shape4
   @@ 5 :> Shape5)
\* test_example_4x4_region: shapes = {4: shape4}
OnlyShape4 == (4 :> Shape4)

Counts(c0, c1, c2, c3, c4, c5) ==
  (0 :> c0 @@ 1 :> c1 @@ 2 :> c2 @@ 3 :> c3 @@ 4 :> c4 @@ 5 :> c5)
Region4x4 == [width |-> 4, height |-> 4, required |-> Counts(0, 0, 0, 0, 2, 0)]
Region12x5Fits == [width |-> 12, height |-> 5, required |-> Counts(1, 0, 1, 0, 2, 2)]
Region12x5Fails == [width |-> 12, height |-> 5, required |-> Counts(1, 0, 1, 0, 3, 2)]
ExampleRegions == <<Region4x4, Region12x5Fits, Region12x5Fails>>

\* ----------------------------------------------------------------- state
VARIABLES
  shapes,               \* part1's shapes: shape id -> set of offsets
  regions,              \* part1's regions: sequence of [width, height, required]
  scan,                 \* the order list(candidates) yields
  pc,                   \* "part1" | "call" | "loop" | "ret" | "done" | "error"
  i,                    \* part1's loop: the region being evaluated (1-based)
  count,                \* part1's count
  results,              \* what can_fit_presents returned for regions 1..i-1
  presents,             \* the search's task list
  piece_size,           \* the search's piece_size
  all_transformations,  \* shape id -> list of orientations
  occupied,             \* the search's occupied set
  stack,                \* active backtrack_optimized calls, innermost last
  expired,              \* time.time() >= deadline
  timedOut,             \* a call of this search returned at the timeout check
  ret,                  \* value returned by the call that returned last
  shape_arg,            \* a direct call's shape argument, as the call leaves it
  call                  \* the direct call made last: function, arguments, result

vars == <<shapes, regions, scan, pc, i, count, results, presents, piece_size,
          all_transformations, occupied, stack, expired, timedOut, ret,
          shape_arg, call>>

\* What part1 and the search never assign: their inputs, and the variables of
\* the direct calls of the shape and placement functions.
inputs == <<shapes, regions, scan, shape_arg, call>>
locals == <<presents, piece_size, all_transformations>>

\* The region of part1's current iteration.
width == regions[i].width
height == regions[i].height
required == regions[i].required

\* One active call: index, and the position of its two loops (transformation
\* t of transformations[shape_idx], candidate k of candidates).
Frame(index) == [index |-> index, t |-> 0, k |-> 0, candidates |-> <<>>]
Top == stack[Len(stack)]
Pop(stk) == SubSeq(stk, 1, Len(stk) - 1)
ReplaceTop(stk, f) == [stk EXCEPT ![Len(stk)] = f]

NoSearch ==
  /\ presents = <<>>
  /\ piece_size = 0
  /\ all_transformations = <<>>
  /\ occupied = {}
  /\ stack = <<>>
  /\ expired = FALSE
  /\ timedOut = FALSE
  /\ ret = FALSE

\* The search's variables once can_fit_presents has returned.
SearchOver ==
  /\ presents' = <<>>
  /\ piece_size' = 0
  /\ all_transformations' = <<>>
  /\ occupied' = {}
  /\ stack' = <<>>
  /\ expired' = FALSE
  /\ timedOut' = FALSE
  /\ ret' = FALSE

\* No direct call has been made.
NoCall == [fn |-> "none"]

InitWith(shp, regs, order) ==
  /\ shape_arg = {}
  /\ call = NoCall
  /\ shapes = shp
  /\ regions = regs
  /\ scan = order
  /\ pc = "part1"
  /\ i = 1
  /\ count = 0
  /\ results = <<>>
  /\ NoSearch

Init ==
  \E shp \in ShapeMaps, regs \in RegionLists, order \in ScanOrders :
     InitWith(shp, regs, order)

\* part1 over a list of regions, one fixed shape map.
InitPart1 ==
  \E regs \in Part1RegionLists, order \in ScanOrders :
     InitWith(Part1Shapes, regs, order)

\* The worked example: test_example_4x4_region's call, or part1(parse(EXAMPLE_INPUT)).
InitExample ==
  \E order \in ScanOrders :
     \/ InitWith(OnlyShape4, <<Region4x4>>, order)
     \/ InitWith(ExampleShapes, ExampleRegions, order)

\* ------------------------------------------------------- Region Evaluator
\* part1 counting every region, fitting or not.
Returned_AlwaysCounts(value, how) ==
  /\ count' = count + 1
  /\ results' = Append(results, [fits |-> value, how |-> how, timedOut |-> timedOut])
  /\ i' = i + 1
  /\ pc' = "part1"
  /\ SearchOver
  /\ UNCHANGED inputs

\* can_fit_presents returns value to part1: "if ...: count += 1", next region.
Returned(value, how) ==
  /\ count' = IF value THEN count + 1 ELSE count
  /\ results' = Append(results, [fits |-> value, how |-> how, timedOut |-> timedOut])
  /\ i' = i + 1
  /\ pc' = "part1"
  /\ SearchOver
  /\ UNCHANGED inputs

\* The lower bound check with "<" for "<=".
LowerBoundAdmits_Strict(w, h, req) == NumPresents(req) < MaxPresentsLowerBound(w, h)

\* can_fit_presents, lower bound check: num_presents <= max_presents_lower_bound
LowerBoundAdmits(w, h, req) == NumPresents(req) <= MaxPresentsLowerBound(w, h)

\* can_fit_presents, upper bound check: total_tile_area > region_area
CapacityRejects(shp, w, h, req) == TotalTileArea(shp, req) > w * h

\* part1's loop reaches a region the lower bound admits.
FitsLowerBound ==
  /\ pc = "part1" /\ i <= Len(regions)
  /\ LowerBoundAdmits(width, height, required)
  /\ Returned(TRUE, "lower_bound")

\* part1's loop reaches a region the capacity check rejects.
FitsCapacity ==
  /\ pc = "part1" /\ i <= Len(regions)
  /\ ~LowerBoundAdmits(width, height, required)
  /\ CapacityRejects(shapes, width, height, required)
  /\ Returned(FALSE, "capacity")

\* part1's loop reaches a region neither check resolves:
\* can_fit_presents_backtracking up to its call of backtrack_optimized.
FitsBacktracking ==
  /\ pc = "part1" /\ i <= Len(regions)
  /\ ~LowerBoundAdmits(width, height, required)
  /\ ~CapacityRejects(shapes, width, height, required)
  /\ IF TotalTileArea(shapes, required) > width * height
       THEN Returned(FALSE, "capacity")
     ELSE IF Presents(shapes, required) = <<>>
       THEN Returned(TRUE, "no_presents")
     ELSE /\ presents' = Presents(shapes, required)
          /\ piece_size' = PieceSize(shapes, required)
          /\ all_transformations' = AllTransformations(shapes)
          /\ occupied' = {}
          /\ stack' = <<Frame(0)>>
          /\ expired' = FALSE
          /\ timedOut' = FALSE
          /\ ret' = FALSE
          /\ pc' = "call"
          /\ UNCHANGED <<inputs, i, count, results>>

\* part1's loop ends: return count.
Part1Return ==
  /\ pc = "part1" /\ i > Len(regions)
  /\ pc' = "done"
  /\ UNCHANGED <<inputs, i, count, results, locals, occupied, stack, expired,
                 timedOut, ret>>

\* ----------------------------------------------------- Backtracking Search
\* The clock passes the deadline of the running search.
DeadlinePasses ==
  /\ stack # <<>> /\ ~expired
  /\ expired' = TRUE
  /\ UNCHANGED <<inputs, pc, i, count, results, locals, occupied, stack,
                 timedOut, ret>>

\* A return that also drops the last task of the task list.
Return_PopsTask(value) ==
  /\ ret' = value
  /\ stack' = Pop(stack)
  /\ pc' = "ret"
  /\ presents' = SubSeq(presents, 1, Len(presents) - 1)
  /\ UNCHANGED <<inputs, i, count, results, piece_size, all_transformations,
                 occupied, expired>>

\* The innermost call returns value to its caller.
Return(value) ==
  /\ ret' = value
  /\ stack' = Pop(stack)
  /\ pc' = "ret"
  /\ UNCHANGED <<inputs, i, count, results, locals, occupied, expired>>

\* remaining_cells < remaining_pieces * piece_size
Pruned(occ, w, h, tasks, size, index) ==
  w * h - Cardinality(occ) < (Len(tasks) - index) * size

RECURSIVE backtrack_optimized(_, _, _, _, _, _, _, _)
\* backtrack_optimized as a function of its arguments, the deadline never
\* reached: True iff some (transformation, candidate) pair can be placed and
\* the call with index + 1 then returns True.
backtrack_optimized(occ, w, h, tasks, trs, size, index, order) ==
  IF index = Len(tasks) THEN TRUE
  ELSE IF Pruned(occ, w, h, tasks, size, index) THEN FALSE
  ELSE LET transformations == trs[tasks[index + 1]]
           candidates == get_candidate_positions(occ, w, h, index = 0, order)
       IN \E t \in 1..Len(transformations), k \in 1..Len(candidates) :
             /\ can_place_at(occ, transformations[t], candidates[k][1],
                             candidates[k][2], w, h)
             /\ backtrack_optimized(
                   place_shape_at(occ, transformations[t], candidates[k][1],
                                  candidates[k][2]),
                   w, h, tasks, trs, size, index + 1, order)

\* can_fit_presents as a function of its arguments, the deadline never
\* reached and every required id in the shape map.
can_fit_presents(shp, w, h, req, order) ==
  IF LowerBoundAdmits(w, h, req) THEN TRUE
  ELSE IF CapacityRejects(shp, w, h, req) THEN FALSE
  ELSE IF Presents(shp, req) = <<>> THEN TRUE
  ELSE backtrack_optimized({}, w, h, Presents(shp, req), AllTransformations(shp),
                           PieceSize(shp, req), 0, order)

\* "if index == len(presents): return True"
CallAllPlaced ==
  /\ pc = "call" /\ Top.index = Len(presents)
  /\ Return(TRUE)
  /\ UNCHANGED timedOut

\* The timeout check returning True.
CallTimeout_ReturnsTrue ==
  /\ pc = "call" /\ stack[Len(stack)].index # Len(presents)
  /\ expired
  /\ timedOut' = TRUE
  /\ ret' = TRUE
  /\ stack' = SubSeq(stack, 1, Len(stack) - 1)
  /\ pc' = "ret"
  /\ UNCHANGED <<inputs, i, count, results, locals, occupied, expired>>

\* "if time.time() >= deadline: return False"
CallTimeout ==
  /\ pc = "call" /\ Top.index # Len(presents)
  /\ expired
  /\ timedOut' = TRUE
  /\ Return(FALSE)

\* "if remaining_cells < remaining_pieces * piece_size: return False"
CallPruned ==
  /\ pc = "call" /\ Top.index # Len(presents)
  /\ ~expired
  /\ Pruned(occupied, width, height, presents, piece_size, Top.index)
  /\ Return(FALSE)
  /\ UNCHANGED timedOut

\* The call goes on to its loops.
CallProceeds ==
  /\ pc = "call" /\ Top.index # Len(presents)
  /\ ~expired
  /\ ~Pruned(occupied, width, height, presents, piece_size, Top.index)

\* transformations[shape_idx] of an id the shape map lacks raises KeyError,
\* which no caller up to part1 catches.
CallKeyError ==
  /\ CallProceeds
  /\ presents[Top.index + 1] \notin DOMAIN all_transformations
  /\ pc' = "error"
  /\ UNCHANGED <<inputs, i, count, results, locals, occupied, stack, expired,
                 timedOut, ret>>

\* candidates = get_candidate_positions(...), and the loops start.
CallBegin ==
  /\ CallProceeds
  /\ presents[Top.index + 1] \in DOMAIN all_transformations
  /\ stack' = ReplaceTop(stack,
        [Top EXCEPT !.t = 1, !.k = 1,
                    !.candidates = get_candidate_positions(
                        occupied, width, height, Top.index = 0, scan)])
  /\ pc' = "loop"
  /\ UNCHANGED <<inputs, i, count, results, locals, occupied, expired,
                 timedOut, ret>>

\* The orientation list of the innermost call's shape, and its loop position.
Transformations == all_transformations[presents[Top.index + 1]]
LoopEnded(f) == f.t > Len(Transformations) \/ f.candidates = <<>>
Transformation == Transformations[Top.t]
Row == Top.candidates[Top.k][1]
Col == Top.candidates[Top.k][2]

\* The inner loop left at the first candidate that fails: the next orientation.
NextPair_NextOrientation(f) == [f EXCEPT !.t = f.t + 1, !.k = 1]

\* The next (transformation, candidate) pair of the two nested loops.
NextPair(f) ==
  IF f.k < Len(f.candidates) THEN [f EXCEPT !.k = f.k + 1]
  ELSE [f EXCEPT !.t = f.t + 1, !.k = 1]

\* place_shape_at and the recursive call without the can_place_at test.
LoopPlace_Unchecked ==
  /\ pc = "loop" /\ ~LoopEnded(Top)
  /\ occupied' = place_shape_at(occupied, Transformation, Row, Col)
  /\ stack' = Append(stack, Frame(Top.index + 1))
  /\ pc' = "call"
  /\ UNCHANGED <<inputs, i, count, results, locals, expired, timedOut, ret>>

\* can_place_at holds: place_shape_at, and the recursive call with index + 1.
LoopPlace ==
  /\ pc = "loop" /\ ~LoopEnded(Top)
  /\ can_place_at(occupied, Transformation, Row, Col, width, height)
  /\ occupied' = place_shape_at(occupied, Transformation, Row, Col)
  /\ stack' = Append(stack, Frame(Top.index + 1))
  /\ pc' = "call"
  /\ UNCHANGED <<inputs, i, count, results, locals, expired, timedOut, ret>>

\* can_place_at fails: the next pair.
LoopSkip ==
  /\ pc = "loop" /\ ~LoopEnded(Top)
  /\ ~can_place_at(occupied, Transformation, Row, Col, width, height)
  /\ stack' = ReplaceTop(stack, NextPair(Top))
  /\ UNCHANGED <<inputs, pc, i, count, results, locals, occupied, expired,
                 timedOut, ret>>

\* Both loops are through: "return False".
LoopExhausted ==
  /\ pc = "loop" /\ LoopEnded(Top)
  /\ Return(FALSE)
  /\ UNCHANGED timedOut

\* The recursive call returned True: "return True", nothing is unplaced.
RetTrue ==
  /\ pc = "ret" /\ stack # <<>> /\ ret
  /\ Return(TRUE)
  /\ UNCHANGED timedOut

\* The recursive call returned False and the loops go on without unplace_shape_at.
RetFalse_NoUnplace ==
  /\ pc = "ret" /\ stack # <<>> /\ ~ret
  /\ stack' = ReplaceTop(stack, NextPair(Top))
  /\ pc' = "loop"
  /\ UNCHANGED <<inputs, i, count, results, locals, occupied, expired, timedOut, ret>>

\* The recursive call returned False: unplace_shape_at, and the next pair.
RetFalse ==
  /\ pc = "ret" /\ stack # <<>> /\ ~ret
  /\ occupied' = unplace_shape_at(occupied, Transformation, Row, Col)
  /\ stack' = ReplaceTop(stack, NextPair(Top))
  /\ pc' = "loop"
  /\ UNCHANGED <<inputs, i, count, results, locals, expired, timedOut, ret>>

\* The outermost call returned: can_fit_presents returns its value to part1.
SearchReturns ==
  /\ pc = "ret" /\ stack = <<>>
  /\ Returned(ret, "search")

Next ==
  \/ FitsLowerBound
  \/ FitsCapacity
  \/ FitsBacktracking
  \/ Part1Return
  \/ DeadlinePasses
  \/ CallAllPlaced
  \/ CallTimeout
  \/ CallPruned
  \/ CallKeyError
  \/ CallBegin
  \/ LoopPlace
  \/ LoopSkip
  \/ LoopExhausted
  \/ RetTrue
  \/ RetFalse
  \/ SearchReturns

Spec == Init /\ [][Next]_vars

\* Every required shape is in the shape map: no KeyError.
NextPart1 ==
  \/ FitsLowerBound
  \/ FitsCapacity
  \/ FitsBacktracking
  \/ Part1Return
  \/ DeadlinePasses
  \/ CallAllPlaced
  \/ CallTimeout
  \/ CallPruned
  \/ CallBegin
  \/ LoopPlace
  \/ LoopSkip
  \/ LoopExhausted
  \/ RetTrue
  \/ RetFalse
  \/ SearchReturns

SpecPart1 == InitPart1 /\ [][NextPart1]_vars

\* Neither fast bound resolves a region of the worked example, and its
\* seven-cell shapes never trigger the prune.
NextExample ==
  \/ FitsBacktracking
  \/ Part1Return
  \/ DeadlinePasses
  \/ CallAllPlaced
  \/ CallTimeout
  \/ CallBegin
  \/ LoopPlace
  \/ LoopSkip
  \/ LoopExhausted
  \/ RetTrue
  \/ RetFalse
  \/ SearchReturns

SpecExample == InitExample /\ [][NextExample]_vars

\* ------------------------------------------- the first tile off the corner
\* A 3 x 3 region, one single cell and two L tetrominoes: the region is packed
\* with the cell in the centre and in no other way.  The cell has one
\* orientation and is the first task under either numbering of the shapes.
LTetromino == {<<0, 0>>, <<1, 0>>, <<2, 0>>, <<2, 1>>}
CentreShapes == {(0 :> LTetromino @@ 1 :> SingleCell), (0 :> SingleCell @@ 1 :> LTetromino)}
CentreRegion(shp) ==
  [width |-> 3, height |-> 3,
   required |-> [idx \in DOMAIN shp |-> IF shp[idx] = SingleCell THEN 1 ELSE 2]]

InitCentre ==
  \E shp \in CentreShapes, order \in ScanOrders :
     InitWith(shp, <<CentreRegion(shp)>>, order)

\* No search of these instances places every tile.
NextCentre ==
  \/ FitsBacktracking
  \/ Part1Return
  \/ DeadlinePasses
  \/ CallTimeout
  \/ CallPruned
  \/ CallBegin
  \/ LoopPlace
  \/ LoopSkip
  \/ LoopExhausted
  \/ RetFalse
  \/ SearchReturns

SpecCentre == InitCentre /\ [][NextCentre]_vars

\* ------------------------------------------- direct calls: Shape Model
\* The shape and placement functions called on their own, as day12_test.py
\* calls them: one call, its arguments drawn by Init, its result in call.
Offsets == (0 - MaxCoord .. MaxCoord) \X (0 - MaxCoord .. MaxCoord)

RECURSIVE OffsetSets(_)
\* The sets of at most n offsets, the empty set among them.
OffsetSets(n) ==
  IF n = 0 THEN {{}}
  ELSE LET smaller == OffsetSets(n - 1)
       IN smaller \cup {S \cup {c} : S \in smaller, c \in Offsets}

\* part1 and the search are not running.
NoPart1 ==
  /\ shapes = <<>>
  /\ regions = <<>>
  /\ scan = "ascending"
  /\ i = 1
  /\ count = 0
  /\ results = <<>>
  /\ presents = <<>>
  /\ piece_size = 0
  /\ all_transformations = <<>>
  /\ stack = <<>>
  /\ expired = FALSE
  /\ timedOut = FALSE
  /\ ret = FALSE

part1_vars == <<shapes, regions, scan, i, count, results, presents, piece_size,
                all_transformations, stack, expired, timedOut, ret>>

InitShapeModel ==
  /\ shape_arg \in OffsetSets(MaxCells)
  /\ call = NoCall
  /\ occupied = {}
  /\ pc = "unit"
  /\ NoPart1

\* A call of a function of one shape returns value; the function builds a new
\* set and assigns nothing to its argument.
ShapeCall(fn, value) ==
  /\ call' = [fn |-> fn, arg |-> shape_arg, value |-> value, raised |-> "none"]
  /\ pc' = "returned"
  /\ UNCHANGED <<shape_arg, occupied, part1_vars>>

CallNormalizeShape ==
  /\ pc = "unit"
  /\ ShapeCall("normalize_shape", normalize_shape(shape_arg))

CallRotate90 ==
  /\ pc = "unit"
  /\ ShapeCall("rotate_90", rotate_90(shape_arg))

CallFlipHorizontal ==
  /\ pc = "unit"
  /\ ShapeCall("flip_horizontal", flip_horizontal(shape_arg))

CallGenerateTransformations ==
  /\ pc = "unit"
  /\ ShapeCall("generate_transformations", generate_transformations(shape_arg))

\* The returned shape is the argument of the next call, as in
\* "temp = rotate_90(temp)" and "normalized = normalize_shape(temp)".
PassOn ==
  /\ pc = "returned"
  /\ call.fn \in {"normalize_shape", "rotate_90", "flip_horizontal"}
  /\ shape_arg' = call.value
  /\ pc' = "unit"
  /\ UNCHANGED <<call, occupied, part1_vars>>

NextShapeModel ==
  \/ CallNormalizeShape
  \/ CallRotate90
  \/ CallFlipHorizontal
  \/ CallGenerateTransformations
  \/ PassOn

SpecShapeModel == InitShapeModel /\ [][NextShapeModel]_vars

\* --------------------------------------- direct calls: Placement Engine
\* The orientations of the library's shapes of at most three cells.
PlacementShapes ==
  UNION {{generate_transformations(s)[n] :
             n \in 1..Len(generate_transformations(s))} :
         s \in {SingleCell, Line3, LTromino}}

\* Origins on the board, and one step off it on every side.
Origins == (0 - 1)..MaxBoard

InitPlacement ==
  /\ shape_arg \in PlacementShapes
  /\ occupied \in SUBSET ((0..(MaxBoard - 1)) \X (0..(MaxBoard - 1)))
  /\ call = NoCall
  /\ pc = "unit"
  /\ NoPart1

\* can_place_at(occupied, shape, start_row, start_col, width, height): it
\* reads its arguments and returns.
CallCanPlaceAt ==
  /\ pc = "unit"
  /\ \E start_row \in Origins, start_col \in Origins,
        w \in 1..MaxBoard, h \in 1..MaxBoard :
        call' = [fn |-> "can_place_at", occupied |-> occupied,
                 shape |-> shape_arg, start_row |-> start_row,
                 start_col |-> start_col, width |-> w, height |-> h,
                 value |-> can_place_at(occupied, shape_arg, start_row,
                                        start_col, w, h)]
  /\ pc' = "returned"
  /\ UNCHANGED <<shape_arg, occupied, part1_vars>>

\* place_shape_at(occupied, shape, start_row, start_col); call.occupied is the
\* occupancy the call found.
CallPlaceShapeAt ==
  /\ pc = "unit"
  /\ \E start_row \in Origins, start_col \in Origins :
        /\ occupied' = place_shape_at(occupied, shape_arg, start_row, start_col)
        /\ call' = [fn |-> "place_shape_at", occupied |-> occupied,
                    shape |-> shape_arg, start_row |-> start_row,
                    start_col |-> start_col]
  /\ pc' = "placed"
  /\ UNCHANGED <<shape_arg, part1_vars>>

\* unplace_shape_at with the arguments of the place_shape_at just made (every
\* cell it removes is in occupied: set.remove raises no KeyError).
CallUnplaceShapeAt ==
  /\ pc = "placed"
  /\ occupied' = unplace_shape_at(occupied, shape_arg, call.start_row,
                                  call.start_col)
  /\ call' = [call EXCEPT !.fn = "unplace_shape_at"]
  /\ pc' = "returned"
  /\ UNCHANGED <<shape_arg, part1_vars>>

NextPlacement ==
  \/ CallCanPlaceAt
  \/ CallPlaceShapeAt
  \/ CallUnplaceShapeAt

SpecPlacement == InitPlacement /\ [][NextPlacement]_vars

\* ================================================================ claims
\* What the claims speak of, stated without the operators of the search.
Board(w, h) == {<<r, c>> : r \in 0..(h - 1), c \in 0..(w - 1)}

\* The orientations of a shape, as a set.
Orientations(shape) ==
  {generate_transformations(shape)[n] : n \in 1..Len(generate_transformations(shape))}

\* Every id with a positive count is in the shape map.
RequiredPresent(shp, req) == \A idx \in DOMAIN req : req[idx] > 0 => idx \in DOMAIN shp

\* The ids a region requires.
RequiredIds(req) == {idx \in DOMAIN req : req[idx] > 0}

\* sum of required[i] * |shapes[i]| over the ids of the shape map
RequiredCells(shp, req) ==
  SetSum([idx \in RequiredIds(req) \cap DOMAIN shp |-> req[idx] * Cardinality(shp[idx])],
         RequiredIds(req) \cap DOMAIN shp)

\* The shape lies inside a bh x bw bounding box.
InBox(shape, bh, bw) ==
  \A a \in shape, b \in shape : a[1] - b[1] < bh /\ a[2] - b[2] < bw

RECURSIVE PackingExists(_, _, _, _, _)
\* The tiles can all be placed on the free cells, each in some orientation at
\* some origin, pairwise disjoint.
PackingExists(free, w, h, tiles, orients) ==
  \/ tiles = <<>>
  \/ \E o \in orients[Head(tiles)], origin \in Board(w, h) :
        /\ CellsAt(o, origin[1], origin[2]) \subseteq free
        /\ PackingExists(free \ CellsAt(o, origin[1], origin[2]), w, h,
                         Tail(tiles), orients)

\* A valid packing of the region's required tiles exists.
Packable(shp, reg) ==
  /\ RequiredCells(shp, reg.required) <= reg.width * reg.height
  /\ PackingExists(Board(reg.width, reg.height), reg.width, reg.height,
                   ExpandFrom(reg.required, 0),
                   [idx \in DOMAIN shp |-> Orientations(shp[idx])])

\* The regions can_fit_presents has returned for.
Answered == 1..Len(results)

\* C1 (as claimed): can_fit_presents returns False whenever the total required
\* cell count exceeds width * height, for every shape map.
C1_Original ==
  \A j \in Answered :
     RequiredCells(shapes, regions[j].required) > regions[j].width * regions[j].height
       => ~results[j].fits

\* The required shapes have at most SHAPE_WIDTH * SHAPE_HEIGHT cells each.
AtMostBoxCells(shp, req) ==
  \A idx \in RequiredIds(req) \cap DOMAIN shp :
     Cardinality(shp[idx]) <= SHAPE_WIDTH * SHAPE_HEIGHT

OverCapacity(reg) ==
  /\ AtMostBoxCells(shapes, reg.required)
  /\ RequiredCells(shapes, reg.required) > reg.width * reg.height

\* C1 (amended): when every required shape has at most 9 cells (as every shape
\* inside a 3 x 3 box has), can_fit_presents returns False whenever the total
\* required cell count exceeds width * height, and the search is never entered.
C1_CapacityRejection ==
  /\ \A j \in Answered : OverCapacity(regions[j]) => ~results[j].fits
  /\ (i <= Len(regions) /\ OverCapacity(regions[i])) => pc = "part1"

C1_Witness ==
  \E j \in Answered :
     /\ OverCapacity(regions[j])
     /\ results[j] = [fits |-> FALSE, how |-> "capacity", timedOut |-> FALSE]

\* The region's required shapes each lie inside a 3 x 3 box and are in the map.
InDomain(reg) ==
  /\ RequiredPresent(shapes, reg.required)
  /\ \A idx \in RequiredIds(reg.required) : InBox(shapes[idx], SHAPE_HEIGHT, SHAPE_WIDTH)

\* C2: no false positives.  For required shapes that each lie inside a 3 x 3
\* box and are in the shape map, whenever can_fit_presents returns True a
\* packing exists: every tile in some orientation at some origin, every cell
\* inside the region, no cell shared.
C2_NoFalsePositives ==
  \A j \in Answered :
     (results[j].fits /\ InDomain(regions[j])) => Packable(shapes, regions[j])

C2_Witness ==
  \E j \in Answered :
     /\ results[j].fits /\ results[j].how = "search"
     /\ InDomain(regions[j])
     /\ NumPresents(regions[j].required) >= 3

\* C3: no false negatives.  Whenever a packing of the required tiles exists and
\* the deadline is not reached, can_fit_presents returns True.
C3_NoFalseNegatives ==
  \A j \in Answered :
     (~results[j].fits /\ ~results[j].timedOut /\ RequiredPresent(shapes, regions[j].required))
       => ~Packable(shapes, regions[j])

\* num_presents <= (width // 3) * (height // 3)
WithinLowerBound(reg) ==
  SetSum(reg.required, DOMAIN reg.required) <= (reg.width \div 3) * (reg.height \div 3)

\* C4: lower-bound admission.  Whenever sum(required) <= (width // 3) *
\* (height // 3), can_fit_presents returns True at once: before the capacity
\* check, without the search, whatever the shape map holds.
C4_LowerBoundAdmission ==
  /\ \A j \in Answered :
        WithinLowerBound(regions[j])
          => results[j] = [fits |-> TRUE, how |-> "lower_bound", timedOut |-> FALSE]
  /\ (i <= Len(regions) /\ WithinLowerBound(regions[i])) => pc = "part1"

C4_Witness ==
  \E j \in Answered :
     /\ WithinLowerBound(regions[j])
     /\ RequiredCells(shapes, regions[j].required) > regions[j].width * regions[j].height
     /\ results[j].fits

C6_ReturnsBoolean ==
  /\ pc # "error"
  /\ Len(stack) <= Len(presents) + 1
  /\ \A d \in 1..Len(stack) : stack[d].index = d - 1

\* The region requires exactly one tile, of a shape in the map.
OneTile(reg) ==
  /\ SetSum(reg.required, DOMAIN reg.required) = 1
  /\ RequiredPresent(shapes, reg.required)

TheShape(reg) == shapes[CHOOSE idx \in RequiredIds(reg.required) : TRUE]

\* Some orientation of the shape lies inside the width x height rectangle.
OrientationFits(shape, w, h) == \E o \in Orientations(shape) : InBox(o, h, w)

\* C7 (as claimed): for a region that requires exactly one tile,
\* can_fit_presents returns True iff some orientation of the shape lies inside
\* the rectangle (the deadline not reached).
C7_Original ==
  \A j \in Answered :
     (OneTile(regions[j]) /\ ~results[j].timedOut)
       => (results[j].fits <=>
             OrientationFits(TheShape(regions[j]), regions[j].width, regions[j].height))

\* C7 (amended): for a region that requires exactly one tile whose shape lies
\* inside a 3 x 3 box, and the deadline not reached, can_fit_presents returns
\* True iff some orientation of the shape lies inside the rectangle.
C7_SingleTile ==
  \A j \in Answered :
     (/\ OneTile(regions[j])
      /\ InBox(TheShape(regions[j]), SHAPE_HEIGHT, SHAPE_WIDTH)
      /\ ~results[j].timedOut)
       => (results[j].fits <=>
             OrientationFits(TheShape(regions[j]), regions[j].width, regions[j].height))

\* test_present_too_large: the cell count is within the area, no orientation fits.
C7_Witness ==
  \E j \in Answered :
     /\ OneTile(regions[j])
     /\ TheShape(regions[j]) = Line3
     /\ regions[j].width = 2 /\ regions[j].height = 2
     /\ results[j] = [fits |-> FALSE, how |-> "search", timedOut |-> FALSE]

\* A cell 4-adjacent to a cell of S.
Adjacent(cell, S) ==
  \E o \in S : (IF cell[1] > o[1] THEN cell[1] - o[1] ELSE o[1] - cell[1])
               + (IF cell[2] > o[2] THEN cell[2] - o[2] ELSE o[2] - cell[2]) = 1

\* C8: the 4 x 4 region requiring two copies of shape 4 fits.  Neither fast
\* bound resolves it; the search tries the first tile at origin (0, 0) only and
\* the second at free origins adjacent to the first, and, the deadline not
\* reached, returns True with both tiles placed.
C8_Example4x4 ==
  /\ \A j \in Answered :
        (regions[j] = Region4x4 /\ ~results[j].timedOut)
          => results[j] = [fits |-> TRUE, how |-> "search", timedOut |-> FALSE]
  /\ (i <= Len(regions) /\ regions[i] = Region4x4)
       => /\ pc # "part1" => presents = <<4, 4>>
          /\ \A d \in 1..Len(stack) :
                stack[d].t > 0 =>
                  IF stack[d].index = 0 THEN stack[d].candidates = << <<0, 0>> >>
                  ELSE \A k \in 1..Len(stack[d].candidates) :
                          /\ stack[d].candidates[k] \in Board(4, 4)
                          /\ Adjacent(stack[d].candidates[k], occupied)
          /\ (pc = "ret" /\ stack = <<>> /\ ret)
               => /\ Cardinality(occupied) = 14
                  /\ occupied \subseteq Board(4, 4)

C8_Witness ==
  /\ shapes = OnlyShape4
  /\ results = <<[fits |-> TRUE, how |-> "search", timedOut |-> FALSE]>>

\* C9: with the six shapes of the worked example, the 12 x 5 region with counts
\* [1,0,1,0,2,2] fits and the one with counts [1,0,1,0,3,2] does not; the
\* capacity check rejects neither (42 and 49 cells, area 60).
C9_Example12x5 ==
  shapes = ExampleShapes =>
    \A j \in Answered :
       /\ (regions[j] = Region12x5Fits /\ ~results[j].timedOut)
            => results[j] = [fits |-> TRUE, how |-> "search", timedOut |-> FALSE]
       /\ regions[j] = Region12x5Fails
            => (~results[j].fits /\ results[j].how = "search")

C9_Witness ==
  /\ shapes = ExampleShapes
  /\ pc = "done"
  /\ results = <<[fits |-> TRUE, how |-> "search", timedOut |-> FALSE],
                 [fits |-> TRUE, how |-> "search", timedOut |-> FALSE],
                 [fits |-> FALSE, how |-> "search", timedOut |-> FALSE]>>

\* C10: part1 returns the number of regions for which can_fit_presents
\* returned True, between 0 and the number of regions; every region is
\* evaluated once, and its result (the deadline not reached) is that of
\* can_fit_presents on that region alone.
C10_Part1Counts ==
  /\ count = Cardinality({j \in Answered : results[j].fits})
  /\ Len(results) = i - 1
  /\ \A j \in Answered :
        ~results[j].timedOut
          => results[j].fits = can_fit_presents(shapes, regions[j].width,
                                   regions[j].height, regions[j].required, scan)
  /\ pc = "done" => (Len(results) = Len(regions) /\ count \in 0..Len(regions))

C10_Witness ==
  /\ pc = "done"
  /\ Len(regions) = 2
  /\ count = 1
  /\ results[1].fits /\ ~results[2].fits /\ ~results[2].timedOut

\* ------------------------------------------------ claims of the Shape Model
\* The last direct call was of fn and has returned.
Called(fn) == pc = "returned" /\ call.fn = fn

\* The smallest row and the smallest column of a non-empty set are both 0.
MinimaZero(S) ==
  /\ \A c \in S : c[1] >= 0 /\ c[2] >= 0
  /\ \E c \in S : c[1] = 0
  /\ \E c \in S : c[2] = 0

\* C11: normalize_shape is idempotent.  Normalizing a shape whose smallest row
\* and column are 0 returns an equal shape, and normalizing what
\* normalize_shape returned returns an equal shape again.
C11_NormalizeIdempotent ==
  /\ [](Called("normalize_shape") /\ MinimaZero(call.arg)
          => call.value = call.arg)
  /\ [][(pc = "unit" /\ call.fn = "normalize_shape" /\ Called("normalize_shape")')
          => (call'.arg = call.value /\ call'.value = call.value)]_vars

\* normalize_shape has been called on a shape of four cells whose smallest row
\* and column are 0 (also what normalize_shape returns for its translates).
C11_Witness ==
  /\ Called("normalize_shape")
  /\ call.arg = {<<0, 0>>, <<0, 1>>, <<0, 2>>, <<1, 0>>}
  /\ call.value = call.arg

\* The translations that move one drawn or returned shape onto another.
Shifts == (0 - 2 * MaxCoord)..(2 * MaxCoord)

\* C12: for a non-empty S, normalize_shape(S) is S moved by one translation
\* (so it has as many cells and the same differences between cells), its
\* smallest row and smallest column are 0, and S itself is as it was.
C12_NormalizeTranslates ==
  (Called("normalize_shape") /\ call.arg # {}) =>
     /\ \E dr \in Shifts, dc \in Shifts :
           call.value = {<<c[1] + dr, c[2] + dc>> : c \in call.arg}
     /\ Cardinality(call.value) = Cardinality(call.arg)
     /\ MinimaZero(call.value)
     /\ shape_arg = call.arg

\* test_normalize_negative_coords, one column to the right.
C12_Witness ==
  /\ Called("normalize_shape")
  /\ call.arg = {<<0 - 1, 0 - 1>>, <<0 - 1, 0>>, <<0, 0 - 1>>}
  /\ call.value = {<<0, 0>>, <<0, 1>>, <<1, 0>>}

\* C13 (as claimed): normalize_shape of an empty offset set fails with
\* InvalidShapeError and returns no shape.
C13_Original ==
  (Called("normalize_shape") /\ call.arg = {}) => call.raised = "InvalidShapeError"

\* C13 (amended): normalize_shape of an empty offset set raises nothing and
\* returns the empty set.
C13_EmptyReturned ==
  (Called("normalize_shape") /\ call.arg = {}) =>
     (call.raised = "none" /\ call.value = {})

C13_Witness == Called("normalize_shape") /\ call.arg = {} /\ shape_arg = {}

\* The two generating transforms as the claims state them, not normalized.
Rotation(S) == {<<c[2], 0 - c[1]>> : c \in S}
Reflection(S) == {<<c[1], 0 - c[2]>> : c \in S}

RECURSIVE Rotated(_, _)
Rotated(S, times) == IF times = 0 THEN S ELSE Rotated(Rotation(S), times - 1)

\* The eight transforms: the four rotations, without and with the reflection.
Transforms == 1..8
Image(n, S) == IF n <= 4 THEN Rotated(S, n - 1) ELSE Rotated(Reflection(S), n - 5)

\* B is A moved by one translation.
SameUpToShift(A, B) ==
  IF A = {} THEN B = {}
  ELSE LET a == CHOOSE x \in A : TRUE
       IN \E b \in B : B = {<<c[1] + b[1] - a[1], c[2] + b[2] - a[2]>> : c \in A}

\* The transforms that map S onto itself, up to the renormalization.
Stabilizer(S) == {n \in Transforms : SameUpToShift(Image(n, S), S)}

\* C14: for a non-empty shape S, generate_transformations(S) has no two equal
\* members and its length is 8 divided by the number of the eight transforms
\* that map S onto itself; it is 1 for a single cell.
C14_OrientationCount ==
  (Called("generate_transformations") /\ call.arg # {}) =>
     /\ \A a \in 1..Len(call.value), b \in 1..Len(call.value) :
           a # b => call.value[a] # call.value[b]
     /\ Len(call.value) * Cardinality(Stabilizer(call.arg)) = 8
     /\ Len(call.value) \in {1, 2, 4, 8}
     /\ Cardinality(call.arg) = 1 => Len(call.value) = 1

\* test_single_cell
C14_Witness ==
  /\ Called("generate_transformations")
  /\ call.arg = {<<0, 0>>}
  /\ call.value = <<{<<0, 0>>}>>

\* C15: for a non-empty shape S, the members of generate_transformations(S)
\* are the eight images of S, each moved to smallest row and column 0: every
\* member is such an image with as many cells as S, and every image is a member.
C15_OrientationsAreOrbit ==
  (Called("generate_transformations") /\ call.arg # {}) =>
     /\ \A k \in 1..Len(call.value) :
           /\ MinimaZero(call.value[k])
           /\ Cardinality(call.value[k]) = Cardinality(call.arg)
           /\ \E n \in Transforms : SameUpToShift(Image(n, call.arg), call.value[k])
     /\ \A n \in Transforms :
           \E k \in 1..Len(call.value) :
              SameUpToShift(Image(n, call.arg), call.value[k])

\* test_line_shape: the vertical line is an orientation of the horizontal one.
C15_Witness ==
  /\ Called("generate_transformations")
  /\ call.arg = {<<0, 0>>, <<0, 1>>, <<0, 2>>}
  /\ \E k \in 1..Len(call.value) : call.value[k] = {<<0, 0>>, <<1, 0>>, <<2, 0>>}

\* ------------------------------------------- claims of the Placement Engine
\* C16 (as claimed): for every occupancy set, orientation and origin,
\* place_shape_at followed at once by unplace_shape_at with the same arguments
\* leaves the occupancy set as it was before the place.
C16_Original ==
  Called("unplace_shape_at") => occupied = call.occupied

\* No cell the shape covers at the origin was occupied before the place.
PlacedOnFreeCells ==
  \A c \in call.shape :
     <<call.start_row + c[1], call.start_col + c[2]>> \notin call.occupied

\* C16 (amended): when none of the shape's translated cells is in the
\* occupancy set before the place (what can_place_at verifies), place_shape_at
\* followed at once by unplace_shape_at with the same arguments leaves the
\* occupancy set as it was before the place.
C16_RoundTrip ==
  (Called("unplace_shape_at") /\ PlacedOnFreeCells) => occupied = call.occupied

\* An L placed beside an occupied cell and not on it, then removed.
C16_Witness ==
  /\ Called("unplace_shape_at")
  /\ PlacedOnFreeCells
  /\ call.occupied = {<<1, 1>>}
  /\ call.shape = {<<0, 0>>, <<0, 1>>, <<1, 0>>}
  /\ call.start_row = 0 /\ call.start_col = 0

\* C17: can_place_at returns True iff every cell (start_row + dr,
\* start_col + dc), (dr, dc) in shape, has 0 <= row < height, 0 <= col < width
\* and is not in occupied; occupied and shape are as they were.
C17_CanPlaceAt ==
  Called("can_place_at") =>
     /\ call.value =
          (\A d \in call.shape :
              LET row == call.start_row + d[1]
                  col == call.start_col + d[2]
              IN /\ 0 <= row /\ row < call.height
                 /\ 0 <= col /\ col < call.width
                 /\ <<row, col>> \notin call.occupied)
     /\ occupied = call.occupied
     /\ shape_arg = call.shape

\* A single cell on the one free cell of a board 1 wide and 2 high; the other
\* occupied cell lies outside the board.
C17_Witness ==
  /\ Called("can_place_at")
  /\ call.value
  /\ call.shape = {<<0, 0>>}
  /\ call.width = 1 /\ call.height = 2
  /\ call.start_row = 1 /\ call.start_col = 0
  /\ call.occupied = {<<0, 0>>, <<0, 1>>}

\* ------------------------------------------------- claims of the fits query
\* The search is running: from the first call of backtrack_optimized to the
\* return of the outermost one.
Searching == pc \in {"call", "loop", "ret"}

AtPrune ==
  /\ pc = "call" /\ ~expired
  /\ stack # <<>> /\ Top.index # Len(presents)
  /\ RequiredPresent(shapes, required)

\* The step taken from AtPrune fails the branch without trying a placement.
FailsBranch == AtPrune /\ ~expired' /\ pc' = "ret"

\* The step taken from AtPrune goes on to the placement loops.
TriesPlacements == AtPrune /\ ~expired' /\ pc' = "loop"

\* C19 (as claimed): at index i < len(tasks), the deadline not passed, the
\* search fails the branch without trying a placement exactly when
\* width*height - |occupancy| < (len(tasks) - i) * |shape(tasks[i])|.
C19_PruneUsesTaskShape ==
  [][(FailsBranch \/ TriesPlacements)
       => (FailsBranch <=>
             width * height - Cardinality(occupied)
               < (Len(presents) - Top.index)
                   * Cardinality(shapes[presents[Top.index + 1]]))]_vars

\* The tiles not placed yet can all be placed on the free cells, in bounds and
\* without overlap.
RemainingPlaceable ==
  PackingExists(Board(width, height) \ occupied, width, height,
                SubSeq(presents, Top.index + 1, Len(presents)),
                [idx \in DOMAIN shapes |-> Orientations(shapes[idx])])

\* C20 (as claimed): the prune never fails a branch from a state in which all
\* remaining tiles could still be placed, for every task list.
C20_PruneIsSafe ==
  [][FailsBranch => ~RemainingPlaceable]_vars

\* --------------------------------------------- claims of the candidate origins
\* The orientation sets the search works with.
SearchOrientations ==
  [idx \in DOMAIN all_transformations |->
     {all_transformations[idx][n] : n \in 1..Len(all_transformations[idx])}]

\* The task list can be packed into the empty region.
TasksPackable ==
  PackingExists(Board(width, height), width, height, presents, SearchOrientations)

\* The task list can be packed into the empty region with the first task's
\* tile at origin (0, 0).
TasksPackableFirstAtOrigin ==
  \E o \in SearchOrientations[presents[1]] :
     /\ CellsAt(o, 0, 0) \subseteq Board(width, height)
     /\ PackingExists(Board(width, height) \ CellsAt(o, 0, 0), width, height,
                      Tail(presents), SearchOrientations)

\* C21 (as claimed): whenever the empty region admits a packing of the task
\* list, it admits one with the first task's tile, in some orientation, at
\* origin (0, 0).
C21_FirstAtOriginLosesNothing ==
  (Searching /\ TasksPackable) => TasksPackableFirstAtOrigin

\* The members of a list, and a list without repetition.
Members(seq) == {seq[n] : n \in 1..Len(seq)}
NoRepeats(seq) == \A a \in 1..Len(seq), b \in 1..Len(seq) : a # b => seq[a] # seq[b]

\* The top-left corner of the bounding box of a non-empty set of cells: the
\* origin of the orientation that covers them.
OriginOf(cells) ==
  <<CHOOSE r \in {c[1] : c \in cells} : \A c \in cells : r <= c[1],
    CHOOSE k \in {c[2] : c \in cells} : \A c \in cells : k <= c[2]>>

\* C22: the origins a call lists are (0, 0) alone at index 0, and at an index
\* above 0 exactly the cells of the region that are free and 4-adjacent to an
\* occupied cell, each once; every tile is placed with its origin on a listed
\* cell, never on an occupied one.
C22_CandidateOrigins ==
  /\ [][(pc = "call" /\ pc' = "loop") =>
          LET listed == stack'[Len(stack')].candidates
          IN IF Top.index = 0 THEN listed = << <<0, 0>> >>
             ELSE /\ NoRepeats(listed)
                  /\ Members(listed) =
                       {cell \in Board(width, height) :
                          cell \notin occupied /\ Adjacent(cell, occupied)}]_vars
  /\ [][(pc = "loop" /\ pc' = "call") =>
          /\ occupied' # occupied
          /\ OriginOf(occupied' \ occupied) \in Members(Top.candidates)
          /\ OriginOf(occupied' \ occupied) \notin occupied]_vars

\* Two tiles are placed, the second at one of several listed origins.
C22_Witness ==
  /\ pc = "call" /\ Len(stack) = 3
  /\ stack[1].candidates = << <<0, 0>> >>
  /\ Len(stack[2].candidates) >= 3
  /\ stack[2].k >= 2

\* ------------------------------------------------ claims of the search state
\* The cell counts of the tiles, summed.
CellsOf(tiles) ==
  SetSum([d \in 1..Len(tiles) |-> Cardinality(shapes[tiles[d]])], 1..Len(tiles))

\* The occupancy is the disjoint union of one placement for each of the tiles,
\* inside the region: the tiles can be placed on the occupied cells without
\* overlap, and they cover as many cells as are occupied.
PlacedExactly(tiles) ==
  /\ occupied \subseteq Board(width, height)
  /\ Cardinality(occupied) = CellsOf(tiles)
  /\ PackingExists(occupied, width, height, tiles, SearchOrientations)

\* C23: on every entry to the search at index i the occupancy is the disjoint
\* union of one placement for each of tasks[0..i), inside the region, with
\* as many cells as those tasks' shapes have; when the search returns True
\* that holds of the whole task list.
C23_SearchStateInvariant ==
  /\ pc = "call" => PlacedExactly(SubSeq(presents, 1, Top.index))
  /\ (pc = "ret" /\ ret) => PlacedExactly(presents)

\* The search returns True with three tiles or more placed.
C23_Witness ==
  /\ pc = "ret" /\ ret /\ stack = <<>>
  /\ Len(presents) >= 3
  /\ Cardinality(occupied) >= 5

\* The outermost call of a search is entered, and has returned.
SearchStarts == pc = "call" /\ Len(stack) = 1
SearchEnds == pc = "ret" /\ stack = <<>>

\* C24 (as claimed): the occupancy is empty when a region's search starts and
\* empty again when it ends, in success or exhausted.
C24_Original ==
  /\ SearchStarts => occupied = {}
  /\ SearchEnds => occupied = {}

\* C24 (amended): the occupancy is empty when a region's search starts; it is
\* empty again when the search ends with False, and when the search ends with
\* True it holds the cells of every task's tile, which are not removed.
C24_EmptyAtStartAndFailure ==
  /\ SearchStarts => occupied = {}
  /\ (SearchEnds /\ ~ret) => occupied = {}
  /\ (SearchEnds /\ ret) =>
        (occupied # {} /\ Cardinality(occupied) = CellsOf(presents))

\* A search of two tiles or more that the prune lets through ends exhausted,
\* the deadline not passed.
C24_Witness ==
  /\ SearchEnds /\ ~ret /\ ~timedOut /\ ~expired
  /\ Len(presents) >= 2
  /\ width * height >= Len(presents) * piece_size

\* The cells the call of frame d has placed and not removed: its current
\* orientation at its current origin.
PlacementOf(d) ==
  CellsAt(all_transformations[presents[stack[d].index + 1]][stack[d].t],
          stack[d].candidates[stack[d].k][1], stack[d].candidates[stack[d].k][2])

\* The cells placed by the calls of frames 1..n.
PlacedBy(n) == UNION {PlacementOf(d) : d \in 1..n}

\* C25: a call that returns False leaves the occupancy as it found it.  A call
\* is entered with the occupancy its callers have placed; its callers do not
\* move while it runs; and when it has returned False, by the prune, by the
\* deadline or with its loops exhausted, the occupancy is again what its
\* callers have placed.
C25_FalseRestoresOccupancy ==
  /\ [](pc = "call" => occupied = PlacedBy(Len(stack) - 1))
  /\ []((pc = "ret" /\ ~ret) => occupied = PlacedBy(Len(stack)))
  /\ [][\A d \in 1..(Len(stack) - 1) :
           d < Len(stack') => stack'[d] = stack[d]]_vars

\* A call at index 1 that the prune let through has returned False before the
\* deadline: its loops are exhausted.
C25_Witness ==
  /\ pc = "ret" /\ ~ret /\ ~expired
  /\ Len(stack) = 1
  /\ occupied # {}
  /\ ~(width * height - Cardinality(occupied) < (Len(presents) - 1) * piece_size)

\* C26: place_shape_at is called with the orientation and origin of the
\* caller's loops only when every translated cell is in the region and free
\* (what can_place_at has just returned True for); unplace_shape_at is called
\* with the arguments of the latest place not yet undone, removes exactly the
\* cells that place added, and finds every one of them in the occupancy.
C26_PlaceUnplaceDiscipline ==
  /\ [][(pc = "loop" /\ pc' = "call") =>
          /\ PlacementOf(Len(stack)) \subseteq Board(width, height)
          /\ PlacementOf(Len(stack)) \cap occupied = {}
          /\ occupied' = occupied \cup PlacementOf(Len(stack))
          /\ occupied' = PlacedBy(Len(stack))]_vars
  /\ [][(pc = "ret" /\ pc' = "loop") =>
          /\ occupied = PlacedBy(Len(stack))
          /\ PlacementOf(Len(stack)) \subseteq occupied
          /\ occupied \ occupied' = PlacementOf(Len(stack))
          /\ occupied' = PlacedBy(Len(stack) - 1)]_vars

\* A search whose first tile fits at (0, 0) has ended exhausted, the deadline
\* not passed: the tile was placed and removed again.
C26_Witness ==
  /\ SearchEnds /\ ~ret /\ ~timedOut
  /\ width * height >= Len(presents) * piece_size
  /\ \E o \in SearchOrientations[presents[1]] :
        CellsAt(o, 0, 0) \subseteq Board(width, height)

\* ------------------------------------------------- claims of the deadline
\* C27 (as claimed): once a call has found the deadline passed, the search
\* makes no further placement attempt: a caller still in its loops returns
\* without testing the orientation/origin combinations it has left.
C27_BoundedOverrun ==
  [][(timedOut /\ pc = "loop") => pc' = "ret"]_vars

\* ------------------------------------------ claims of the Placement Task List
\* How often id k occurs in the list.
Occurrences(seq, k) == Cardinality({n \in 1..Len(seq) : seq[n] = k})

\* The number of distinct orientations of a shape: the eight transforms over
\* those that map the shape onto itself.
NumOrientations(S) == 8 \div Cardinality(Stabilizer(S))

\* The pair the list is sorted by.
TaskKey(k) == <<NumOrientations(shapes[k]), k>>

\* C28: the task list of a region holds shape id k exactly required[k] times
\* (an id with count 0 not at all); with every required id in the shape map it
\* is sorted ascending by (number of distinct orientations of shape k, k); and
\* no step of the search changes it.
C28_TaskList ==
  /\ [](Searching =>
          /\ \A k \in DOMAIN required : Occurrences(presents, k) = required[k]
          /\ \A n \in 1..Len(presents) : presents[n] \in DOMAIN required
          /\ RequiredPresent(shapes, required) =>
               \A a \in 1..Len(presents), b \in 1..Len(presents) :
                  a < b => KeyLeq(TaskKey(presents[a]), TaskKey(presents[b])))
  /\ [][(Searching /\ Searching') => presents' = presents]_vars

\* Two single cells before an L tromino of smaller id.
C28_Witness ==
  /\ Searching
  /\ shapes = (0 :> LTromino @@ 1 :> SingleCell)
  /\ presents = <<1, 1, 0>>

\* ------------------------------------------- claims of the orientation lists
\* A search was run for a region answered before.
SearchedBefore == \E j \in Answered : results[j].how = "search"

\* part1 goes from its loop into the search of region i.
SearchBegins == pc = "part1" /\ pc' = "call"

\* C29 (as claimed): the orientation lists are computed once and cached; a
\* later region that needs the search reuses the lists computed for an earlier
\* one.
C29_Original ==
  [][(SearchBegins /\ SearchedBefore) => all_transformations' = all_transformations]_vars

\* C29 (amended): the orientation lists are computed by every query that
\* reaches the search, one list for every shape of the shape map; they are
\* used unchanged by every call of that search, and none is kept when the
\* query returns.
C29_ComputedPerQuery ==
  /\ [](pc \in {"part1", "done"} => all_transformations = <<>>)
  /\ [][SearchBegins =>
          /\ DOMAIN all_transformations' = DOMAIN shapes
          /\ \A idx \in DOMAIN shapes :
                /\ NoRepeats(all_transformations'[idx])
                /\ Len(all_transformations'[idx]) = NumOrientations(shapes[idx])]_vars
  /\ [][(Searching /\ Searching') => all_transformations' = all_transformations]_vars

\* The second region of a list is in its search, the first was searched too.
C29_Witness ==
  /\ Searching /\ i = 2
  /\ results[1].how = "search"
  /\ DOMAIN all_transformations = DOMAIN shapes

\* ----------------------------------------------- claims of the search order
\* The shape maps with every shape in some orientation: from another
\* orientation generate_transformations lists the same shapes in another order.
Reoriented(shp) ==
  {m \in [DOMAIN shp -> UNION {Orientations(shp[idx]) : idx \in DOMAIN shp}] :
      \A idx \in DOMAIN shp : m[idx] \in Orientations(shp[idx])}

\* C30: with no deadline hit, the value the search returns for a region is the
\* value it returns with the candidate origins listed in any other order and
\* with the orientations of every shape listed in the order another
\* orientation of the shape gives.
C30_OrderIndependent ==
  \A j \in Answered :
     (results[j].how = "search" /\ ~results[j].timedOut) =>
        \A order \in ScanOrders, shp \in Reoriented(shapes) :
           results[j].fits = can_fit_presents(shp, regions[j].width,
                                regions[j].height, regions[j].required, order)

\* Two L trominoes and a single cell searched to the end; the L has four
\* orientations and the later tiles several candidate origins.
C30_Witness ==
  \E j \in Answered :
     /\ results[j] = [fits |-> TRUE, how |-> "search", timedOut |-> FALSE]
     /\ shapes = (0 :> SingleCell @@ 1 :> LTromino)
     /\ regions[j].required = (0 :> 1 @@ 1 :> 2)

====
